---- MODULE Spec2Model ----
(***************************************************************************)
(* Model of the logging subsystem of helper-utils.                         *)
(*                                                                         *)
(* The repository holds several modules that play the same role.  Exactly  *)
(* one of them is loaded in a process; the variable `variant` says which:  *)
(*   "UniversalLogger"   src/utils/Logger.js lines 1-207 (registry keyed   *)
(*                       by service name, createLogger)                    *)
(*   "UniversalLogger2"  src/utils/Logger.js lines 209-387 (one exported   *)
(*                       instance)                                         *)
(*   "getLogger"         src/unnamed/part_004 with mongoConnect of         *)
(*                       src/unnamed/part_003                              *)
(*   "requestContext"    src/utils/RequestContext.js (the context carrier) *)
(*   "responses"         src/utils/ResponseHandler.js and                  *)
(*                       src/utils/responses.js (error responses)          *)
(* The state spaces of the variants are disjoint: a variable that belongs  *)
(* to another variant keeps its initial value.                             *)
(*                                                                         *)
(* Library behaviour the code relies on (winston, mongoose, Node's         *)
(* AsyncLocalStorage) is modelled at the call sites:                       *)
(*  - a winston logger hands a record to a transport when the record's     *)
(*    level passes the logger's level and the transport's level;           *)
(*  - a connection attempt is pending until it succeeds or fails;          *)
(*  - a continuation inherits the store of the execution that created it;  *)
(*  - closing a winston logger removes its transports; closing a mongoose  *)
(*    connection that is still connecting takes effect once the attempt    *)
(*    has settled, and closing a closed connection changes nothing.        *)
(* process.env.LOG_LEVEL and SERVICE_NAME are unset (the defaults of the   *)
(* code apply).                                                            *)
(***************************************************************************)
EXTENDS Integers, Sequences, FiniteSets, TLC

VARIABLES
    variant,                \* which module the process loaded
    DB_URL,                 \* constants.DB_URL is a non-empty string
    LOG_FILE,               \* process.env.LOG_FILE is set (UniversalLogger2)
    requestContextModule,   \* what require("./RequestContext.js") yields in part_004
    insts,                  \* the UniversalLogger objects constructed so far
    loggerInstances,        \* Logger.js:189  Map serviceName -> instance (0: absent)
    returned,               \* the instances createLogger(name) has returned, per name
    g,                      \* part_004: loggerInstancePromise, the Logger, the mongoConnect chain
    records,                \* every record a log call built, in call order
    pendingWrites,          \* records handed to the persistent store, not settled yet
    store,                  \* records persisted
    fileCauses,             \* levels of the public calls that led to a write to the file sink
    tasks,                  \* RequestContext: continuations scheduled and not run yet
    started,                \* RequestContext: chains whose run() was called
    gets,                   \* RequestContext: what each get() returned
    lastOp                  \* the operation performed last and what its caller saw

vars == <<variant, DB_URL, LOG_FILE, requestContextModule, insts, loggerInstances,
          returned, g, records, pendingWrites, store, fileCauses,
          tasks, started, gets, lastOp>>

-----------------------------------------------------------------------------
(* Bounds of the model *)

MaxInstances == 3 \* UniversalLogger objects constructed
MaxCalls == 2     \* calls of the logging operations and of close()
MaxDepth == 2     \* nesting depth of asynchronous continuations

-----------------------------------------------------------------------------
(* Values *)

Names == {"Logs", "X"}
Levels == {"error", "warn", "info", "debug"}
Null == "null"
\* null / undefined where a context object is expected
NullCtx == [null |-> TRUE]

\* A context is the attribute bag of a request; "" stands for an absent attribute.
EmptyCtx == [requestId |-> "", service |-> ""]
CtxA == [requestId |-> "A", service |-> "svcA"]
CtxB == [requestId |-> "B", service |-> ""]
CtxOf(c) == IF c = "A" THEN CtxA ELSE IF c = "B" THEN CtxB ELSE EmptyCtx

\* What the globals hold when a UniversalLogger logs:
\*   rc  global.requestContext: unset, get() returns undefined/{} ("empty"),
\*       get() returns context A, or get() throws;
\*   cls global.cls: unset, no "request" namespace ("nons"), a namespace with no
\*       active context ("noactive": namespace.active is null), or active context B.
Ambients == [rc : {"unset", "empty", "A", "throws"}, cls : {"unset", "nons", "noactive", "B"}]
NoAmbient == [rc |-> "unset", cls |-> "unset"]

\* winston's npm levels
LevelNum(l) == CASE l = "error" -> 0 [] l = "warn" -> 1 [] l = "info" -> 2 [] l = "debug" -> 5

\* process.env.LOG_LEVEL || "info"
LOG_LEVEL == "info"

TransportLevel(t) == CASE t = "File" -> "error" [] t = "Console" -> LOG_LEVEL [] t = "MongoDB" -> LOG_LEVEL

\* logger.log(level, ...): the transports that receive the record
Delivered(transports, level) ==
    {t \in transports : /\ LevelNum(LOG_LEVEL) >= LevelNum(level)
                        /\ LevelNum(TransportLevel(t)) >= LevelNum(level)}

\* The extra mapping a caller hands to a log call (`meta`, Logger.js lines
\* 144, 341), as far as the fields a record keeps here go: "" for a key the
\* mapping does not have. NoMeta stands for every mapping without these keys,
\* the default {} included.
NoMeta == [requestId |-> "", service |-> ""]
Metas == {NoMeta, [requestId |-> "meta-req", service |-> "meta-svc"]}

NoOp == [op |-> "none", inst |-> 0, level |-> "", threw |-> "no", console |-> FALSE,
         file |-> FALSE, mongo |-> FALSE, requestId |-> "", service |-> "", promise |-> "",
         created |-> FALSE, unbound |-> FALSE, storeRequestId |-> "", storeService |-> "",
         closedConnection |-> FALSE, closedLogger |-> FALSE, again |-> FALSE,
         ctxService |-> "", meta |-> NoMeta, derived |-> NoMeta,
         response |-> [sent |-> 0, status |-> 0, message |-> <<"none", "">>],
         error |-> [message |-> "", statusCode |-> 0]]

\* no request context is bound where a UniversalLogger looks for one
NoContext(amb) == amb.rc \in {"unset", "empty"} /\ amb.cls \in {"unset", "nons"}

-----------------------------------------------------------------------------
(* UniversalLogger, src/utils/Logger.js lines 13-186 *)

initConsoleLogger_Buffering == {"File", "Console", "MongoDB"}
\* #initConsoleLogger: the transports of the logger it creates
initConsoleLogger == {"File", "Console"}

\* #reconfigureWithDatabase: the transports of the logger it creates
reconfigureWithDatabase == {"File", "MongoDB"}

\* #performDatabaseInit up to its await
performDatabaseInit(l) ==
    IF l.isInitializing \/ l.isInitialized
    THEN l
    ELSE IF l.mongoConnection = "connected"
    THEN l
    ELSE [l EXCEPT !.isInitializing = TRUE,
                   !.mongoConnection = "connecting",
                   !.inFlight = @ + 1,
                   !.attempts = @ + 1]

\* #autoInitDatabase
autoInitDatabase(l, url) ==
    IF l.initPromise # Null THEN l
    ELSE IF l.isInitialized \/ l.isInitializing THEN l
    ELSE IF ~url THEN l
    ELSE LET m == performDatabaseInit(l) IN
         [m EXCEPT !.initPromise = IF m.isInitializing THEN "pending" ELSE "fulfilled"]

\* constructor(serviceName)
NewUniversalLogger(serviceName, url) ==
    autoInitDatabase([serviceName |-> serviceName,
                      transports |-> initConsoleLogger,
                      isInitializing |-> FALSE,
                      isInitialized |-> FALSE,
                      initPromise |-> Null,
                      mongoConnection |-> "undefined",
                      inFlight |-> 0,
                      attempts |-> 0,
                      readiness |-> 0,
                      warnings |-> 0,
                      closing |-> 0,
                      closed |-> 0,
                      closeCalledIn |-> ""], url)

\* #performDatabaseInit after `await asPromise()` resolved
performDatabaseInitResolved(l) ==
    LET m == IF ~l.isInitialized
             THEN [l EXCEPT !.transports = reconfigureWithDatabase,
                            !.isInitialized = TRUE,
                            !.readiness = @ + 1]
             ELSE l
    IN [m EXCEPT !.mongoConnection = "connected",
                 !.inFlight = @ - 1,
                 !.isInitializing = FALSE,
                 !.initPromise = "fulfilled"]

\* #performDatabaseInit after `await asPromise()` rejected
performDatabaseInitRejected(l) ==
    [l EXCEPT !.transports = initConsoleLogger,
              !.warnings = @ + 1,
              !.mongoConnection = "disconnected",
              !.inFlight = @ - 1,
              !.isInitializing = FALSE,
              !.initPromise = "fulfilled"]

\* this.#mongoConnection.close() (line 180) on a connection in `state`: the
\* state it leaves the connection in and what it raises.  mongoose closes a
\* connected connection and leaves a closed one as it is.
connectionClose_Once(state) ==
    [state |-> "disconnected", threw |-> IF state = "disconnected" THEN "Error" ELSE "no"]
connectionClose(state) == [state |-> "disconnected", threw |-> "no"]

closeDeferred_Never(l) == FALSE
\* `await this.#mongoConnection.close()` (line 180) stays pending: mongoose
\* defers the close of a connection that is still connecting until the
\* attempt has settled
closeDeferred(l) == l.inFlight > 0

\* this.#logger.close() (line 183): winston removes every transport of the logger
loggerClose(transports) == {}

\* close() up to its await (lines 178-180); without a connection it runs to its
\* end.  closeCalledIn remembers the state of the connection at the call.
close(l) ==
    IF l.mongoConnection # "undefined"
    THEN [l EXCEPT !.closing = @ + 1, !.closeCalledIn = l.mongoConnection]
    ELSE [l EXCEPT !.transports = loggerClose(@), !.closed = @ + 1,
                   !.closeCalledIn = l.mongoConnection]

\* close() after `await this.#mongoConnection.close()` (lines 180-184)
closeResumed(l) ==
    LET c == connectionClose(l.mongoConnection) IN
    [l EXCEPT !.mongoConnection = c.state,
              !.transports = IF c.threw = "no" THEN loggerClose(@) ELSE @,
              !.closing = @ - 1,
              !.closed = @ + 1]

\* #getContext: the context, or NullCtx when it ends with namespace.active of a
\* namespace that has no active context
getContext(amb) ==
    IF amb.rc = "throws" THEN EmptyCtx
    ELSE LET c1 == IF amb.rc = "A" THEN CtxA ELSE EmptyCtx IN
         CASE amb.cls = "unset" -> c1
           [] amb.cls = "nons" -> EmptyCtx
           [] amb.cls = "noactive" -> NullCtx
           [] amb.cls = "B" -> CtxB

\* The state of the persistent-store sink of an instance
SinkState(l) ==
    IF l.isInitialized THEN "Active"
    ELSE IF l.isInitializing THEN "Initializing"
    ELSE IF l.mongoConnection = "undefined" THEN "Uninitialized"
    ELSE "Degraded"

-----------------------------------------------------------------------------
(* Registry, src/utils/Logger.js lines 189-207 *)

getLoggerInstance_NoHas(reg, objs, serviceName, url) ==
    [reg |-> [reg EXCEPT ![serviceName] = Len(objs) + 1],
     objs |-> Append(objs, NewUniversalLogger(serviceName, url)),
     result |-> Len(objs) + 1]
\* getLoggerInstance(serviceName): the registry, the objects and the instance returned
getLoggerInstance(reg, objs, serviceName, url) ==
    IF reg[serviceName] = 0
    THEN [reg |-> [reg EXCEPT ![serviceName] = Len(objs) + 1],
          objs |-> Append(objs, NewUniversalLogger(serviceName, url)),
          result |-> Len(objs) + 1]
    ELSE [reg |-> reg, objs |-> objs, result |-> reg[serviceName]]

-----------------------------------------------------------------------------
(* UniversalLogger, second form: src/utils/Logger.js lines 221-381 *)

\* #initConsoleLogger (lines 235-250)
initConsoleLogger2 == {"Console"}

\* the transports built at lines 282-306
reconfigure2(logFile) == {"Console", "MongoDB"} \cup (IF logFile THEN {"File"} ELSE {})

\* #autoInitDatabase up to its await (lines 252-273)
autoInitDatabase2(l, url) ==
    IF l.isInitializing \/ l.isInitialized THEN l
    ELSE IF ~url THEN l
    ELSE [l EXCEPT !.isInitializing = TRUE,
                   !.mongoConnection = "connecting",
                   !.inFlight = @ + 1,
                   !.attempts = @ + 1]

\* constructor() (lines 227-233)
NewUniversalLogger2(url) ==
    autoInitDatabase2([serviceName |-> "",
                       transports |-> initConsoleLogger2,
                       isInitializing |-> FALSE,
                       isInitialized |-> FALSE,
                       initPromise |-> Null,
                       mongoConnection |-> "undefined",
                       inFlight |-> 0,
                       attempts |-> 0,
                       readiness |-> 0,
                       warnings |-> 0,
                       closing |-> 0,
                       closed |-> 0,
                       closeCalledIn |-> ""], url)

\* close() up to its await (lines 376-378)
close2(l) ==
    IF l.mongoConnection # "undefined"
    THEN [l EXCEPT !.closing = @ + 1, !.closeCalledIn = l.mongoConnection]
    ELSE [l EXCEPT !.closed = @ + 1, !.closeCalledIn = l.mongoConnection]

\* close() after `await this.#mongoConnection.close()` (lines 378-380)
close2Resumed(l) ==
    [l EXCEPT !.mongoConnection = connectionClose(@).state,
              !.closing = @ - 1,
              !.closed = @ + 1]

\* #getContext (lines 325-339)
getContext2(amb) ==
    CASE amb.rc = "throws" -> EmptyCtx
      [] amb.rc = "A" -> CtxA
      [] amb.rc = "empty" -> EmptyCtx
      [] amb.rc = "unset" ->
            CASE amb.cls = "unset" -> EmptyCtx
              [] amb.cls = "nons" -> EmptyCtx
              [] amb.cls = "noactive" -> NullCtx
              [] amb.cls = "B" -> CtxB

-----------------------------------------------------------------------------
(* The record a log call builds *)

OrElse(a, b) == IF a # "" THEN a ELSE b

log_Reinit(l) == [l EXCEPT !.transports = initConsoleLogger]
\* the instance after #log (lines 144-160, 341-357): #log reads #serviceName
\* and #logger and assigns no field
log(l) == l

\* { ...base, ...meta }: a key of meta replaces the key of the same name
\* written before it (object spread, Logger.js lines 156, 353)
spread(base, meta) ==
    [requestId |-> IF meta.requestId # "" THEN meta.requestId ELSE base.requestId,
     service |-> IF meta.service # "" THEN meta.service ELSE base.service]

\* the fields UniversalLogger.#log derives from the context and the instance
\* (lines 149, 155); SERVICE_NAME is unset
derived(l, ctx) ==
    [requestId |-> OrElse(ctx.requestId, "NO-REQ"),
     service |-> OrElse(ctx.service, OrElse(l.serviceName, "app"))]

\* the fields the second form derives (lines 346, 352): requestId null when
\* absent, service from the environment only
derived2(l, ctx) ==
    [requestId |-> ctx.requestId,
     service |-> "app"]

\* logData of UniversalLogger.#log (lines 147-157): the derived fields, then
\* ...meta
logData(l, level, ctx, meta) ==
    LET d == spread(derived(l, ctx), meta) IN
    [level |-> level, requestId |-> d.requestId, service |-> d.service]

\* logData of the second form (lines 344-354)
logData2(l, level, ctx, meta) ==
    LET d == spread(derived2(l, ctx), meta) IN
    [level |-> level, requestId |-> d.requestId, service |-> d.service]

\* the line part_004's #log hands to winston (lines 63-64)
logLine(level, ctx) ==
    [level |-> level,
     requestId |-> OrElse(ctx.requestId, "NO-ID"),
     service |-> ctx.service]

\* the document part_004's #log hands to logModel.create (lines 67-78)
logDocument(level, ctx) ==
    [level |-> level,
     requestId |-> ctx.requestId,
     service |-> ctx.service]

\* the schema of part_004 lines 21-32: requestId and service are required
Valid(doc) == doc.requestId # "" /\ doc.service # ""

\* What `records` keeps of a log call: the instance, the state of the
\* persistent-store sink at the call, whether the store's schema accepts the
\* document and, where a failed write is reported with the logger (part_004
\* lines 79-81), the level of the call
Entry(i, level, sink, valid) == [inst |-> i, level |-> level, sink |-> sink, valid |-> valid]

-----------------------------------------------------------------------------
(* mongoConnect, src/unnamed/part_003.  src/utils/MongoConnection.js has the *)
(* same control flow with its messages sent through `logger`, the `Logger`   *)
(* export of ./Logger, which no Logger module under src/ provides; the model *)
(* follows part_003, whose messages go to console.error.                     *)

MAX_RETRY == 3

\* mongoConnect called without a connection string: every call throws in its
\* try block before any attempt, and the catch block calls the next one
\* without awaiting it.  outcome: how the promise of this call settles;
\* unhandled: rejected promises of the calls it started, which nobody holds.
RECURSIVE mongoConnectNoString(_)
mongoConnectNoString(retry) ==
    IF retry < MAX_RETRY
    THEN LET inner == mongoConnectNoString(retry + 1) IN
         [outcome |-> "undefined",
          unhandled |-> inner.unhandled + (IF inner.outcome = "rejected" THEN 1 ELSE 0),
          errors |-> inner.errors + 1]
    ELSE [outcome |-> "rejected", unhandled |-> 0, errors |-> 1]

mongoConnectCatch_NoLimit(retry) == [outcome |-> "undefined", next |-> retry + 1]
\* the catch block (lines 14-21) after the attempt of the call with `retry` failed
mongoConnectCatch(retry) ==
    IF retry < MAX_RETRY
    THEN [outcome |-> "undefined", next |-> retry + 1]
    ELSE [outcome |-> "rejected", next |-> retry]

-----------------------------------------------------------------------------
(* Logger and getLogger, src/unnamed/part_004 *)

\* #initLogger (lines 44-59)
initLogger == {"File", "Console"}

\* constructor (lines 16-42): this.#logDatabase.model(...) with logDatabase undefined
LoggerConstructor(logDb) == IF logDb = "undefined" THEN "throws" ELSE "ok"

\* how the promise of the async function at lines 100-103 settles once
\* mongoConnect({retry: 0}) has settled with `logDb`
instancePromiseSettles(logDb) ==
    IF logDb = "rejected" THEN "rejected"
    ELSE IF LoggerConstructor(logDb) = "throws" THEN "rejected"
    ELSE "fulfilled"

NoLogger == [promise |-> Null, requested |-> "", tableName |-> "", constructed |-> 0,
             promises |-> 0, retry |-> 0, inFlight |-> 0, attempts |-> 0,
             succeeded |-> 0, unhandled |-> 0, undelivered |-> 0, errors |-> 0]

getLogger_NoCache(s, tableName, url) ==
    [s EXCEPT !.promise = "pending", !.promises = @ + 1, !.requested = tableName,
              !.retry = 0, !.inFlight = @ + 1, !.attempts = @ + 1]
getLogger_ResetOnRejection(s, tableName, url) ==
    IF s.promise \in {Null, "rejected"}
    THEN [s EXCEPT !.promise = "pending", !.promises = @ + 1, !.requested = tableName,
                   !.retry = 0, !.inFlight = @ + 1, !.attempts = @ + 1]
    ELSE s
\* getLogger(tableName) (lines 98-106)
getLogger(s, tableName, url) ==
    IF s.promise = Null
    THEN IF url
         THEN [s EXCEPT !.promise = "pending", !.promises = @ + 1,
                        !.requested = tableName,
                        !.retry = 0, !.inFlight = @ + 1, !.attempts = @ + 1]
         ELSE LET r == mongoConnectNoString(0) IN
              [s EXCEPT !.promise = instancePromiseSettles(r.outcome),
                        !.promises = @ + 1,
                        !.requested = tableName,
                        !.unhandled = @ + r.unhandled,
                        !.errors = @ + r.errors]
    ELSE s

\* `await mongoose.createConnection(...)` resolved in the call with s.retry
mongoConnectResolved(s) ==
    IF s.retry = 0
    THEN [s EXCEPT !.inFlight = @ - 1, !.succeeded = @ + 1,
                   !.promise = instancePromiseSettles("db"),
                   !.constructed = @ + 1,
                   !.tableName = s.requested]
    ELSE [s EXCEPT !.inFlight = @ - 1, !.succeeded = @ + 1,
                   !.undelivered = @ + 1]

\* `await mongoose.createConnection(...)` rejected in the call with s.retry
mongoConnectRejected(s) ==
    LET c == mongoConnectCatch(s.retry)
        t == [s EXCEPT !.errors = @ + 1,
                       !.promise = IF s.retry = 0 THEN instancePromiseSettles(c.outcome) ELSE @]
    IN IF c.outcome = "undefined"
       THEN [t EXCEPT !.retry = c.next, !.attempts = @ + 1]
       ELSE [t EXCEPT !.inFlight = @ - 1,
                      !.unhandled = IF s.retry = 0 THEN @ ELSE @ + 1]

-----------------------------------------------------------------------------
(* requestContext, src/utils/RequestContext.js *)

\* run(context, callback): the store the callback executes with
run(context) == context

get_Empty(executionStore) == EmptyCtx
\* get(): asyncLocalStorage.getStore() || {}
get(executionStore) == IF executionStore = NullCtx THEN EmptyCtx ELSE executionStore

-----------------------------------------------------------------------------
(* failureResponse, src/utils/ResponseHandler.js, and the response classes  *)
(* of src/utils/responses.js                                                *)

\* an absent property of the error object; statusCode 0 stands for an absent
\* statusCode
Undefined == "undefined"
ErrorMessages == {Undefined, "", "boom"}
ErrorStatusCodes == {0, 401, 403, 404, 409, 500}
Errors == [message : ErrorMessages, statusCode : ErrorStatusCodes]

\* the message of new Unauthorized / Forbidden / ResourceNotFound /
\* InternalServerError (message): `message || <default of the class>`
\* (responses.js lines 30, 51, 72, 93)
classMessage(statusCode, message) ==
    IF message # "" THEN message
    ELSE CASE statusCode = 401 -> "Unauthorized"
           [] statusCode = 403 -> "Forbidden"
           [] statusCode = 404 -> "Not Found"
           [] statusCode = 500 -> "Internal Server Error"

\* `typeof message == String` (ResponseHandler.js line 61): typeof yields the
\* string "string", which never equals the constructor String
typeofIsString(message) == FALSE

\* JSON.stringify of a string: the string in double quotes
stringify(message) == <<"json", message>>

\* failureResponse(res, error) (ResponseHandler.js lines 40-63): the calls
\* made on res
failureResponse(error) ==
    LET message == IF error.message = Undefined THEN "Internal Server Error"
                   ELSE error.message
        statusCode == IF error.statusCode = 0 THEN 500 ELSE error.statusCode
    IN IF statusCode \in {401, 403, 404, 500}
       THEN [sent |-> 1, status |-> statusCode,
             message |-> <<"text", classMessage(statusCode, message)>>]
       ELSE [sent |-> 1, status |-> statusCode,
             message |-> IF typeofIsString(message) THEN <<"text", message>>
                         ELSE stringify(message)]

\* FailureResponse.send() (responses.js lines 218-241): line 219 reads the
\* variables `error` and `res`, which the method does not declare (the
\* constructor stored them in this.error and this.res)
send(error) == [sent |-> 0, status |-> 0, message |-> <<"none", "">>]

-----------------------------------------------------------------------------
(* Initial states: the state after the module was loaded *)

NoInstances == [n \in Names |-> 0]

\* Logger.js line 205: the module exports getLoggerInstance("Logs")
InitUniversalLogger ==
    /\ variant = "UniversalLogger"
    /\ DB_URL \in BOOLEAN
    /\ LOG_FILE = FALSE
    /\ requestContextModule = "none"
    /\ LET r == getLoggerInstance(NoInstances, <<>>, "Logs", DB_URL) IN
         /\ insts = r.objs
         /\ loggerInstances = r.reg
         /\ returned = [n \in Names |-> IF n = "Logs" THEN {r.result} ELSE {}]
    /\ g = NoLogger

\* Logger.js line 384: const logger = new UniversalLogger()
InitUniversalLogger2 ==
    /\ variant = "UniversalLogger2"
    /\ DB_URL \in BOOLEAN
    /\ LOG_FILE \in BOOLEAN
    /\ requestContextModule = "none"
    /\ insts = <<NewUniversalLogger2(DB_URL)>>
    /\ loggerInstances = NoInstances
    /\ returned = [n \in Names |-> {}]
    /\ g = NoLogger

\* part_004 line 96: let loggerInstancePromise = null.
\* part_004 line 4 binds requestContext to the exports of "./RequestContext.js":
\* "named" is the exports object of src/utils/RequestContext.js line 15,
\* { requestContext }, which has no get; "direct" is an exports object that is
\* the carrier itself, as line 62 of part_004 uses it.
InitGetLogger ==
    /\ variant = "getLogger"
    /\ DB_URL \in BOOLEAN
    /\ LOG_FILE = FALSE
    /\ requestContextModule \in {"named", "direct"}
    /\ insts = <<>>
    /\ loggerInstances = NoInstances
    /\ returned = [n \in Names |-> {}]
    /\ g = NoLogger

\* RequestContext.js line 4: a fresh AsyncLocalStorage
InitRequestContext ==
    /\ variant = "requestContext"
    /\ DB_URL = FALSE
    /\ LOG_FILE = FALSE
    /\ requestContextModule = "none"
    /\ insts = <<>>
    /\ loggerInstances = NoInstances
    /\ returned = [n \in Names |-> {}]
    /\ g = NoLogger

\* ResponseHandler.js and responses.js keep no state
InitResponses ==
    /\ variant = "responses"
    /\ DB_URL = FALSE
    /\ LOG_FILE = FALSE
    /\ requestContextModule = "none"
    /\ insts = <<>>
    /\ loggerInstances = NoInstances
    /\ returned = [n \in Names |-> {}]
    /\ g = NoLogger

Init ==
    /\ \/ InitUniversalLogger
       \/ InitUniversalLogger2
       \/ InitGetLogger
       \/ InitRequestContext
       \/ InitResponses
    /\ records = <<>>
    /\ pendingWrites = {}
    /\ store = {}
    /\ fileCauses = {}
    /\ tasks = {}
    /\ started = {}
    /\ gets = {}
    /\ lastOp = NoOp

-----------------------------------------------------------------------------
(* Actions *)

RECURSIVE ClosesBegun(_)
\* the close() calls made so far on the first n instances
ClosesBegun(n) ==
    IF n = 0 THEN 0 ELSE insts[n].closing + insts[n].closed + ClosesBegun(n - 1)

\* the calls callers have made so far: log calls that built a record, and close() calls
CallsMade == Len(records) + ClosesBegun(Len(insts))

buildVars == <<variant, DB_URL, LOG_FILE, requestContextModule>>
registryVars == <<loggerInstances, returned>>
logVars == <<records, pendingWrites, store, fileCauses>>
carrierVars == <<tasks, started, gets>>

\* logger.log(...) of a winston logger with `transports`: the record reaches
\* the transports its level passes
WinstonLog(i, sink, transports, rec) ==
    LET d == Delivered(transports, rec.level) IN
    /\ records' = Append(records, Entry(i, "", sink, TRUE))
    /\ pendingWrites' = IF "MongoDB" \in d THEN pendingWrites \cup {Len(records) + 1}
                        ELSE pendingWrites
    /\ fileCauses' = IF "File" \in d THEN fileCauses \cup {rec.level} ELSE fileCauses
    /\ store' = store

LogOp(i, rec, transports) ==
    LET d == Delivered(transports, rec.level) IN
    [NoOp EXCEPT !.op = "log", !.inst = i, !.level = rec.level,
                 !.console = "Console" \in d, !.file = "File" \in d,
                 !.mongo = "MongoDB" \in d,
                 !.requestId = rec.requestId, !.service = rec.service,
                 !.storeRequestId = IF "MongoDB" \in d THEN rec.requestId ELSE "",
                 !.storeService = IF "MongoDB" \in d THEN rec.service ELSE ""]

\* createLogger(serviceName) (Logger.js lines 198-201)
createLogger(serviceName) ==
    /\ variant = "UniversalLogger"
    /\ Len(insts) < MaxInstances
    /\ LET r == getLoggerInstance(loggerInstances, insts, serviceName, DB_URL) IN
         /\ insts' = r.objs
         /\ loggerInstances' = r.reg
         /\ returned' = [returned EXCEPT ![serviceName] = @ \cup {r.result}]
         /\ lastOp' = [NoOp EXCEPT !.op = "createLogger", !.inst = r.result,
                                   !.service = serviceName,
                                   !.created = Len(r.objs) > Len(insts)]
    /\ UNCHANGED <<buildVars, g, logVars, carrierVars>>

\* the connection of instance i opens: #performDatabaseInit resumes (lines 85-97)
ConnectionOpens(i) ==
    /\ variant = "UniversalLogger"
    /\ insts[i].inFlight > 0
    /\ insts' = [insts EXCEPT ![i] = performDatabaseInitResolved(@)]
    /\ lastOp' = [NoOp EXCEPT !.op = "connected", !.inst = i, !.console = TRUE]
    /\ UNCHANGED <<buildVars, registryVars, g, logVars, carrierVars>>

\* the connection of instance i fails: the catch block (lines 92-97)
ConnectionFails(i) ==
    /\ variant = "UniversalLogger"
    /\ insts[i].inFlight > 0
    /\ insts' = [insts EXCEPT ![i] = performDatabaseInitRejected(@)]
    /\ lastOp' = [NoOp EXCEPT !.op = "connectFailed", !.inst = i, !.console = TRUE]
    /\ UNCHANGED <<buildVars, registryVars, g, logVars, carrierVars>>

\* info / warn / error / debug of instance i (lines 144-176)
Log(i, level, amb, meta) ==
    /\ variant = "UniversalLogger"
    /\ CallsMade < MaxCalls
    /\ LET ctx == getContext(amb) IN
         IF ctx = NullCtx
         THEN \* context.requestId of null: TypeError out of #log
              /\ lastOp' = [NoOp EXCEPT !.op = "log", !.inst = i, !.level = level,
                                        !.threw = "TypeError"]
              /\ UNCHANGED logVars
         ELSE LET rec == logData(insts[i], level, ctx, meta) IN
              /\ WinstonLog(i, SinkState(insts[i]), insts[i].transports, rec)
              /\ lastOp' = [LogOp(i, rec, insts[i].transports) EXCEPT
                               !.unbound = NoContext(amb), !.ctxService = ctx.service,
                               !.meta = meta, !.derived = derived(insts[i], ctx)]
    /\ insts' = [insts EXCEPT ![i] = log(@)]
    /\ UNCHANGED <<buildVars, registryVars, g, carrierVars>>

\* second form: the connection opens, #autoInitDatabase resumes (lines 275-322).
\* this.info(...) at line 315 runs inside the try block: when it throws, the
\* catch block puts the console-only logger back.
ConnectionOpens2(amb) ==
    /\ variant = "UniversalLogger2"
    /\ insts[1].inFlight > 0
    /\ LET l == [insts[1] EXCEPT !.transports = reconfigure2(LOG_FILE),
                                 !.isInitialized = TRUE,
                                 !.mongoConnection = "connected",
                                 !.inFlight = @ - 1,
                                 !.isInitializing = FALSE]
           ctx == getContext2(amb)
       IN IF ctx = NullCtx
          THEN /\ insts' = [insts EXCEPT ![1] = [l EXCEPT !.transports = initConsoleLogger2,
                                                          !.warnings = @ + 1]]
               /\ lastOp' = [NoOp EXCEPT !.op = "connected", !.inst = 1, !.console = TRUE]
               /\ UNCHANGED logVars
          ELSE LET rec == logData2(l, "info", ctx, NoMeta) IN
               /\ insts' = [insts EXCEPT ![1] = [l EXCEPT !.readiness = @ + 1]]
               /\ WinstonLog(1, SinkState(l), l.transports, rec)
               /\ lastOp' = [LogOp(1, rec, l.transports) EXCEPT !.op = "connected"]
    /\ UNCHANGED <<buildVars, registryVars, g, carrierVars>>

\* second form: the connection fails (lines 316-322)
ConnectionFails2 ==
    /\ variant = "UniversalLogger2"
    /\ insts[1].inFlight > 0
    /\ insts' = [insts EXCEPT ![1] = [@ EXCEPT !.transports = initConsoleLogger2,
                                               !.warnings = @ + 1,
                                               !.mongoConnection = "disconnected",
                                               !.inFlight = @ - 1,
                                               !.isInitializing = FALSE]]
    /\ lastOp' = [NoOp EXCEPT !.op = "connectFailed", !.inst = 1, !.console = TRUE]
    /\ UNCHANGED <<buildVars, registryVars, g, logVars, carrierVars>>

\* second form: info / warn / error / debug (lines 341-374)
Log2(level, amb, meta) ==
    /\ variant = "UniversalLogger2"
    /\ CallsMade < MaxCalls
    /\ LET ctx == getContext2(amb) IN
         IF ctx = NullCtx
         THEN /\ lastOp' = [NoOp EXCEPT !.op = "log", !.inst = 1, !.level = level,
                                        !.threw = "TypeError"]
              /\ UNCHANGED logVars
         ELSE LET rec == logData2(insts[1], level, ctx, meta) IN
              /\ WinstonLog(1, SinkState(insts[1]), insts[1].transports, rec)
              /\ lastOp' = [LogOp(1, rec, insts[1].transports) EXCEPT
                               !.unbound = NoContext(amb), !.ctxService = ctx.service,
                               !.meta = meta, !.derived = derived2(insts[1], ctx)]
    /\ insts' = [insts EXCEPT ![1] = log(@)]
    /\ UNCHANGED <<buildVars, registryVars, g, carrierVars>>

\* a caller calls close() on instance i (Logger.js lines 178-185, 376-380)
Close(i) ==
    /\ variant \in {"UniversalLogger", "UniversalLogger2"}
    /\ CallsMade < MaxCalls
    /\ LET l == insts[i]
           m == IF variant = "UniversalLogger" THEN close(l) ELSE close2(l)
       IN /\ insts' = [insts EXCEPT ![i] = m]
          /\ lastOp' = [NoOp EXCEPT !.op = IF m.closed > l.closed THEN "closed" ELSE "close",
                                    !.inst = i,
                                    !.again = l.closed > 0,
                                    !.closedConnection = l.mongoConnection # "undefined",
                                    !.closedLogger = (variant = "UniversalLogger"
                                                       /\ m.closed > l.closed)]
    /\ UNCHANGED <<buildVars, registryVars, g, logVars, carrierVars>>

\* the connection of instance i has closed and close() resumes
CloseResumes(i) ==
    /\ variant \in {"UniversalLogger", "UniversalLogger2"}
    /\ insts[i].closing > 0
    /\ ~closeDeferred(insts[i])
    /\ LET l == insts[i]
           c == connectionClose(l.mongoConnection)
       IN /\ insts' = [insts EXCEPT ![i] = IF variant = "UniversalLogger"
                                           THEN closeResumed(l) ELSE close2Resumed(l)]
          /\ lastOp' = [NoOp EXCEPT !.op = "closed",
                                    !.inst = i,
                                    !.again = l.closed > 0,
                                    !.threw = c.threw,
                                    !.closedLogger = (variant = "UniversalLogger"
                                                       /\ c.threw = "no")]
    /\ UNCHANGED <<buildVars, registryVars, g, logVars, carrierVars>>

\* a caller calls getLogger(tableName) (part_004 lines 98-106)
GetLogger(tableName) ==
    /\ variant = "getLogger"
    /\ g' = getLogger(g, tableName, DB_URL)
    /\ lastOp' = [NoOp EXCEPT !.op = "getLogger", !.service = tableName,
                              !.promise = g'.promise,
                              !.created = g'.promises > g.promises]
    /\ UNCHANGED <<buildVars, insts, registryVars, logVars, carrierVars>>

\* the connection attempt of mongoConnect succeeds (part_003 lines 9-13)
MongoAttemptSucceeds ==
    /\ variant = "getLogger"
    /\ g.inFlight > 0
    /\ g' = mongoConnectResolved(g)
    /\ lastOp' = [NoOp EXCEPT !.op = "connected", !.promise = g'.promise]
    /\ UNCHANGED <<buildVars, insts, registryVars, logVars, carrierVars>>

\* the connection attempt of mongoConnect fails (part_003 lines 14-21)
MongoAttemptFails ==
    /\ variant = "getLogger"
    /\ g.inFlight > 0
    /\ g' = mongoConnectRejected(g)
    /\ lastOp' = [NoOp EXCEPT !.op = "connectFailed", !.console = TRUE, !.promise = g'.promise]
    /\ UNCHANGED <<buildVars, insts, registryVars, logVars, carrierVars>>

\* a caller that holds the promise of getLogger logs through it:
\* (await getLogger()).info / warn / error (message), with `s` the store of
\* the calling chain (part_004 lines 61-92).  While the promise is pending
\* the caller is suspended in its await.
LogThroughGetLogger(level, s) ==
    /\ variant = "getLogger"
    /\ g.promise \in {"fulfilled", "rejected"}
    /\ CallsMade < MaxCalls
    /\ IF g.promise = "rejected"
       THEN /\ lastOp' = [NoOp EXCEPT !.op = "log", !.level = level, !.threw = "getLogger"]
            /\ UNCHANGED logVars
       ELSE IF requestContextModule = "named"
       THEN \* requestContext.get is not a function
            /\ lastOp' = [NoOp EXCEPT !.op = "log", !.level = level, !.threw = "TypeError"]
            /\ UNCHANGED logVars
       ELSE LET ctx == get(s)
                line == logLine(level, ctx)
                d == Delivered(initLogger, level)
            IN /\ records' = Append(records, Entry(0, level, "Active", Valid(logDocument(level, ctx))))
               /\ pendingWrites' = pendingWrites \cup {Len(records) + 1}
               /\ fileCauses' = IF "File" \in d THEN fileCauses \cup {level} ELSE fileCauses
               /\ store' = store
               /\ lastOp' = [LogOp(0, line, initLogger) EXCEPT
                                !.mongo = TRUE,
                                !.unbound = (s = NullCtx),
                                !.ctxService = ctx.service,
                                !.storeRequestId = logDocument(level, ctx).requestId,
                                !.storeService = logDocument(level, ctx).service]
    /\ UNCHANGED <<buildVars, insts, registryVars, g, carrierVars>>

\* the persistent store accepts the write of record r; a write over a
\* connection that close() has closed fails
StoreWriteSucceeds(r) ==
    /\ r \in pendingWrites
    /\ records[r].valid
    /\ records[r].inst # 0 => insts[records[r].inst].mongoConnection = "connected"
    /\ pendingWrites' = pendingWrites \ {r}
    /\ store' = store \cup {r}
    /\ lastOp' = [NoOp EXCEPT !.op = "written", !.inst = records[r].inst]
    /\ UNCHANGED <<buildVars, insts, registryVars, g, records, fileCauses, carrierVars>>

\* the write of record r fails.  part_004 lines 79-81 report it with
\* this.#logger.error(...); the transport of a UniversalLogger drops it.
StoreWriteFails(r) ==
    /\ r \in pendingWrites
    /\ pendingWrites' = pendingWrites \ {r}
    /\ IF variant = "getLogger"
       THEN LET d == Delivered(initLogger, "error") IN
            /\ fileCauses' = IF "File" \in d THEN fileCauses \cup {records[r].level}
                             ELSE fileCauses
            /\ lastOp' = [NoOp EXCEPT !.op = "writeFailed", !.level = records[r].level,
                                      !.console = "Console" \in d, !.file = "File" \in d]
       ELSE /\ fileCauses' = fileCauses
            /\ lastOp' = [NoOp EXCEPT !.op = "writeFailed", !.inst = records[r].inst]
    /\ UNCHANGED <<buildVars, insts, registryVars, g, records, store, carrierVars>>

\* an incoming request of chain c: requestContext.run(context, callback); the
\* callback reads the context and leaves a continuation behind
Run(c) ==
    /\ variant = "requestContext"
    /\ c \notin started
    /\ started' = started \cup {c}
    /\ gets' = gets \cup {[chain |-> c, depth |-> 0, got |-> get(run(CtxOf(c)))]}
    /\ tasks' = tasks \cup {[chain |-> c, store |-> run(CtxOf(c)), depth |-> 1]}
    /\ lastOp' = [NoOp EXCEPT !.op = "run", !.requestId = c]
    /\ UNCHANGED <<buildVars, insts, registryVars, g, logVars>>

\* a continuation runs, after the callback that created it returned: it reads
\* the context and may leave `more` continuations of its own behind
Continue(t, more) ==
    /\ variant = "requestContext"
    /\ t \in tasks
    /\ gets' = gets \cup {[chain |-> t.chain, depth |-> t.depth, got |-> get(t.store)]}
    /\ tasks' = (tasks \ {t}) \cup
                (IF more /\ t.depth < MaxDepth
                 THEN {[chain |-> t.chain, store |-> t.store, depth |-> t.depth + 1]}
                 ELSE {})
    /\ lastOp' = [NoOp EXCEPT !.op = "continue", !.requestId = t.chain]
    /\ UNCHANGED <<buildVars, insts, registryVars, g, logVars, started>>

\* code outside every request (startup, background) reads the context
GetOutside ==
    /\ variant = "requestContext"
    /\ gets' = gets \cup {[chain |-> "none", depth |-> 0, got |-> get(NullCtx)]}
    /\ lastOp' = [NoOp EXCEPT !.op = "get"]
    /\ UNCHANGED <<buildVars, insts, registryVars, g, logVars, tasks, started>>

\* a handler calls failureResponse(res, error)
FailureResponseCall(error) ==
    /\ variant = "responses"
    /\ lastOp' = [NoOp EXCEPT !.op = "failureResponse", !.error = error,
                              !.response = failureResponse(error)]
    /\ UNCHANGED <<buildVars, insts, registryVars, g, logVars, carrierVars>>

\* a handler calls new FailureResponse(res, error, statusCode).send()
FailureResponseSend(error) ==
    /\ variant = "responses"
    /\ lastOp' = [NoOp EXCEPT !.op = "send", !.error = error,
                              !.threw = "ReferenceError",
                              !.response = send(error)]
    /\ UNCHANGED <<buildVars, insts, registryVars, g, logVars, carrierVars>>

\* The sixteen ambients give few distinct results of #getContext.  Next draws
\* one ambient for each distinct result, which reaches the same states as
\* drawing every ambient.
Seen(amb) == <<getContext(amb), NoContext(amb)>>
Seen2(amb) == <<getContext2(amb), NoContext(amb)>>
AmbientsSeen == {CHOOSE a \in Ambients : Seen(a) = x : x \in {Seen(amb) : amb \in Ambients}}
AmbientsSeen2 == {CHOOSE a \in Ambients : Seen2(a) = x : x \in {Seen2(amb) : amb \in Ambients}}

Next ==
    \/ \E n \in Names : createLogger(n)
    \/ \E i \in DOMAIN insts : ConnectionOpens(i)
    \/ \E i \in DOMAIN insts : ConnectionFails(i)
    \/ \E i \in DOMAIN insts, level \in Levels, amb \in AmbientsSeen, meta \in Metas :
          Log(i, level, amb, meta)
    \/ \E amb \in AmbientsSeen2 : ConnectionOpens2(amb)
    \/ ConnectionFails2
    \/ \E level \in Levels, amb \in AmbientsSeen2, meta \in Metas : Log2(level, amb, meta)
    \/ \E i \in DOMAIN insts : Close(i)
    \/ \E i \in DOMAIN insts : CloseResumes(i)
    \/ \E n \in Names : GetLogger(n)
    \/ MongoAttemptSucceeds
    \/ MongoAttemptFails
    \/ \E level \in {"info", "warn", "error"}, s \in {NullCtx, CtxA, CtxB} : LogThroughGetLogger(level, s)
    \/ \E r \in pendingWrites : StoreWriteSucceeds(r)
    \/ \E r \in pendingWrites : StoreWriteFails(r)
    \/ \E c \in {"A", "B"} : Run(c)
    \/ \E t \in tasks, more \in BOOLEAN : Continue(t, more)
    \/ GetOutside
    \/ \E error \in Errors : FailureResponseCall(error)
    \/ \E error \in Errors : FailureResponseSend(error)

Spec == Init /\ [][Next]_vars

\* a pending connection attempt settles: the driver reports success, or an
\* error at the latest when its server selection times out
AttemptSettles ==
    \/ \E i \in DOMAIN insts : ConnectionOpens(i) \/ ConnectionFails(i)
    \/ \E amb \in AmbientsSeen2 : ConnectionOpens2(amb)
    \/ ConnectionFails2
    \/ MongoAttemptSucceeds
    \/ MongoAttemptFails

FairSpec == Spec /\ WF_vars(AttemptSettles)

-----------------------------------------------------------------------------
(* Properties *)

InstancesOf(n) == {i \in DOMAIN insts : insts[i].serviceName = n}

\* every connection attempt made so far has failed
AllAttemptsFailed(l) == l.attempts > 0 /\ l.inFlight = 0 /\ l.mongoConnection = "disconnected"

\* C1: for every interleaving of createLogger / getLoggerInstance calls with
\* the same service name, one instance for that name is constructed and no
\* more, every call returns it, and its connection routine never runs more
\* than once at a time; getLogger creates one promise and constructs at most
\* one Logger.
C1_OneInstancePerName ==
    /\ \A n \in Names :
         /\ Cardinality(InstancesOf(n)) <= 1
         /\ returned[n] # {} => /\ returned[n] = {loggerInstances[n]}
                                /\ InstancesOf(n) = {loggerInstances[n]}
    /\ \A i \in DOMAIN insts : insts[i].inFlight <= 1
    /\ g.promises <= 1
    /\ g.constructed <= 1
    /\ g.inFlight <= 1

\* a second createLogger("X") returned the existing instance while the
\* connection routine of that instance was running
C1_Witness ==
    /\ variant = "UniversalLogger"
    /\ lastOp.op = "createLogger"
    /\ lastOp.service = "X"
    /\ ~lastOp.created
    /\ insts[loggerInstances["X"]].inFlight = 1
    /\ Len(insts) = 2

\* C2: at most one connection attempt is in flight per instance, and while
\* one is in flight the promise a caller requesting initialization is handed
\* (initPromise, loggerInstancePromise) is still pending, so that the caller
\* awaits that attempt; this includes the retries mongoConnect starts.
C2_CallersAwaitTheAttempt ==
    /\ \A i \in DOMAIN insts :
         /\ insts[i].inFlight <= 1
         /\ (variant = "UniversalLogger" /\ insts[i].inFlight > 0)
               => insts[i].initPromise = "pending"
    /\ g.inFlight <= 1
    /\ g.inFlight > 0 => g.promise = "pending"

\* C3: when every connection attempt fails, 3 attempts are made in total,
\* afterwards the persistent-store sink is Degraded, and error(...) calls
\* complete on console and file (as long as the instance was not closed).
C3_ThreeAttemptsThenDegraded ==
    /\ (variant = "getLogger" /\ DB_URL /\ g.promise # Null /\ g.inFlight = 0 /\ g.succeeded = 0)
          => g.attempts = 3
    /\ \A i \in DOMAIN insts :
         AllAttemptsFailed(insts[i])
            => /\ insts[i].attempts = 3
               /\ SinkState(insts[i]) = "Degraded"
               /\ "MongoDB" \notin insts[i].transports
               /\ (lastOp.op = "log" /\ lastOp.inst = i /\ lastOp.level = "error"
                      /\ insts[i].closed = 0)
                     => (lastOp.threw = "no" /\ lastOp.console /\ lastOp.file)

\* C4: when connection establishment fails on every attempt, nothing is
\* raised: no promise of a retry ends rejected with nobody holding it, and
\* the promise of getLogger does not reject.
C4_FailureNeverRaised ==
    (DB_URL /\ g.succeeded = 0) => (g.unhandled = 0 /\ g.promise # "rejected")

\* C5: in every state of a logger instance the console sink and the file
\* sink are both registered.
C5_ConsoleAndFileRegistered ==
    \A i \in DOMAIN insts : {"Console", "File"} \subseteq insts[i].transports

\* C6: with no connection string configured, an info call produces a console
\* line and does not throw, and nothing reaches the persistent store.  (The
\* TypeError of a failing context read is the subject of C7 and is left out
\* here, and so are calls on an instance that was closed.)
C6_InfoWithoutConnectionString ==
    ~DB_URL =>
        /\ (/\ lastOp.op = "log"
            /\ lastOp.level = "info"
            /\ lastOp.threw # "TypeError"
            /\ lastOp.inst # 0 => insts[lastOp.inst].closed = 0)
              => (lastOp.threw = "no" /\ lastOp.console)
        /\ store = {}
        /\ pendingWrites = {}

\* C7: a logging operation never raises to its caller, whatever the sink
\* state and the ambient context.
C7_LogNeverRaises ==
    lastOp.op = "log" => lastOp.threw # "TypeError"

\* C8: every get() executed in the callback of a chain or in a continuation
\* descended from it, at any depth, returns the context that chain was
\* started with.
C8_ContextIsolation ==
    \A x \in gets : x.chain \in {"A", "B"} => x.got = CtxOf(x.chain)

\* chain A has read its context at depth 2 and chain B at depth 1, after
\* their callbacks returned, and a continuation of chain B is still to run
C8_Witness ==
    /\ \E x \in gets : x.chain = "A" /\ x.depth >= 2
    /\ \E x \in gets : x.chain = "B" /\ x.depth >= 1
    /\ \E t \in tasks : t.chain = "B" /\ t.depth >= 2

C10_DroppedWhileNotActive ==
    /\ \A r \in pendingWrites \cup store : records[r].sink = "Active"
    /\ (variant = "UniversalLogger" /\ CallsMade < MaxCalls)
          => \A i \in DOMAIN insts : ENABLED Log(i, "info", NoAmbient, NoMeta)
    /\ (variant = "UniversalLogger2" /\ CallsMade < MaxCalls)
          => ENABLED Log2("info", NoAmbient, NoMeta)

\* a record logged while the sink was Initializing is neither persisted nor
\* pending after the sink became Active and a later record was persisted
C10_Witness ==
    \E r \in DOMAIN records :
        /\ records[r].sink = "Initializing"
        /\ r \notin pendingWrites \cup store
        /\ SinkState(insts[records[r].inst]) = "Active"
        /\ store # {}

\* the service attribute an instance stamps on a record when the context has
\* none: the name given to the constructor (Logger.js line 155), and for the
\* second form the default of line 352
DefaultService(i) ==
    IF variant = "UniversalLogger" THEN insts[i].serviceName ELSE "app"

\* C11: a record produced by error(...) while no request context is bound
\* carries the sentinel requestId and the service name of the instance, in
\* the copy handed to console and file and in the copy handed to the
\* persistent store (the call hands over no extra mapping with these keys).
C11_SentinelInEveryCopy ==
    (/\ lastOp.op = "log" /\ lastOp.level = "error" /\ lastOp.threw = "no"
     /\ lastOp.unbound /\ lastOp.meta = NoMeta)
       => /\ lastOp.requestId \in {"NO-ID", "NO-REQ"}
          /\ lastOp.mongo => /\ lastOp.storeRequestId \in {"NO-ID", "NO-REQ"}
                             /\ lastOp.storeService # ""
          /\ lastOp.inst # 0 => /\ lastOp.service = DefaultService(lastOp.inst)
                                /\ lastOp.mongo => lastOp.storeService = lastOp.service

\* what close() is there to release: the connection and the logger's transports
Held(l) == <<l.mongoConnection, l.transports, l.isInitialized, l.isInitializing, l.inFlight>>

\* C12 (as stated): a close() call made after a close() of the same instance
\* has completed invokes neither the connection's close nor the logger's
\* close, and does not raise.
C12_SecondCloseInvokesNothing ==
    (lastOp.op \in {"close", "closed"} /\ lastOp.again)
       => (~lastOp.closedConnection /\ ~lastOp.closedLogger /\ lastOp.threw = "no")

\* C12 (amended): a step of a close() call taken after a close() of the same
\* instance has completed leaves the connection, the transports and the
\* initialization flags of the instance as they were, and does not raise.
C12_SecondCloseChangesNothing ==
    [][\A i \in DOMAIN insts :
          (lastOp'.op \in {"close", "closed"} /\ lastOp'.inst = i /\ insts[i].closed > 0)
             => (Held(insts'[i]) = Held(insts[i]) /\ lastOp'.threw = "no")]_vars

\* a second close() has completed on an instance whose persistent-store sink
\* had become Active
C12_Witness ==
    /\ lastOp.op = "closed"
    /\ lastOp.again
    /\ insts[lastOp.inst].closed = 2
    /\ insts[lastOp.inst].isInitialized

C14_KeyedByName ==
    /\ \A n \in Names : \A i \in returned[n] : insts[i].serviceName = n
    /\ \A n, m \in Names : n # m => returned[n] \cap returned[m] = {}
    /\ lastOp.op = "getLogger" => g.requested = lastOp.service

\* C15: with no connection string configured no connection attempt is made,
\* no retry is started, and no error or warning is reported.
C15_IdleWithoutConnectionString ==
    ~DB_URL =>
        /\ \A i \in DOMAIN insts : /\ insts[i].attempts = 0
                                    /\ insts[i].mongoConnection = "undefined"
                                    /\ insts[i].warnings = 0
        /\ g.attempts = 0
        /\ g.errors = 0
        /\ g.unhandled = 0

\* C16: when the connection attempt of an instance succeeds the instance is
\* connected, the transport of the persistent store is registered,
\* isInitialized is true and the readiness line has been emitted; no
\* instance ever emits a second readiness line.
C16_SuccessMakesActive ==
    /\ \A i \in DOMAIN insts : insts[i].readiness <= 1
    /\ (lastOp.op = "connected" /\ lastOp.inst # 0)
          => LET l == insts[lastOp.inst] IN
             /\ l.mongoConnection = "connected"
             /\ l.isInitialized
             /\ "MongoDB" \in l.transports
             /\ l.readiness = 1

\* no connection attempt is pending
NoAttemptInFlight == g.inFlight = 0 /\ \A i \in DOMAIN insts : insts[i].inFlight = 0

\* C17: one initialization makes at most MAX_RETRY + 1 connection attempts
\* (one in a UniversalLogger); when no attempt is pending the instance is
\* connected or has failed, and no step starts a new attempt for it; and the
\* attempts eventually stop for good.
C17_AttemptsAreBounded ==
    /\ [](/\ g.attempts <= MAX_RETRY + 1
          /\ \A i \in DOMAIN insts :
                /\ insts[i].attempts <= 1
                /\ (insts[i].attempts > 0 /\ insts[i].inFlight = 0)
                      => insts[i].mongoConnection \in {"connected", "disconnected"})
    /\ [][((g.promise # Null /\ g.inFlight = 0) => g'.attempts = g.attempts)
           /\ (\A i \in DOMAIN insts :
                  insts[i].inFlight = 0 => insts'[i].attempts = insts[i].attempts)]_vars
    /\ <>[]NoAttemptInFlight

\* every attempt of mongoConnect has failed, the last one after the last
\* retry, and none is pending
C17_Witness ==
    /\ g.attempts = MAX_RETRY + 1
    /\ g.succeeded = 0
    /\ g.inFlight = 0

\* C18: asking again for the logger of a name that has one (createLogger,
\* getLogger) changes nothing in the instance: no connection is opened, no
\* transport is replaced, no readiness line is emitted; and on a connected
\* instance the initialization routine itself returns without a change.
C18_InitializationIsIdempotent ==
    /\ [](\A i \in DOMAIN insts :
            insts[i].mongoConnection = "connected"
               => IF variant = "UniversalLogger"
                  THEN autoInitDatabase(insts[i], DB_URL) = insts[i]
                  ELSE autoInitDatabase2(insts[i], DB_URL) = insts[i])
    /\ [][((lastOp'.op = "createLogger" /\ ~lastOp'.created) => insts' = insts)
           /\ ((lastOp'.op = "getLogger" /\ g.promise # Null) => g' = g)]_vars

\* createLogger was called for a name whose instance is connected and has
\* emitted its readiness line
C18_Witness ==
    /\ lastOp.op = "createLogger"
    /\ ~lastOp.created
    /\ insts[lastOp.inst].mongoConnection = "connected"
    /\ insts[lastOp.inst].readiness = 1
    /\ insts[lastOp.inst].attempts = 1

\* C19: while the connection attempt is pending a caller that asked for a
\* logger holds one, and its info / warn / error calls complete with console
\* output.  (The TypeError of a failing context read is the subject of C7
\* and is left out here.)
C19_LoggerUsableWhileConnecting ==
    /\ (/\ lastOp.op = "log"
        /\ lastOp.inst # 0
        /\ lastOp.level \in {"info", "warn", "error"}
        /\ lastOp.threw # "TypeError"
        /\ insts[lastOp.inst].isInitializing)
          => (lastOp.threw = "no" /\ lastOp.console)
    /\ (variant = "getLogger" /\ g.inFlight > 0) => g.promise = "fulfilled"

C21_LogLeavesConnectionState ==
    [][lastOp'.op = "log" => (insts' = insts /\ g' = g)]_vars

\* a log call completed on an instance whose connection attempt is pending
C21_Witness ==
    /\ lastOp.op = "log"
    /\ lastOp.threw = "no"
    /\ lastOp.inst # 0
    /\ insts[lastOp.inst].isInitializing
    /\ insts[lastOp.inst].inFlight = 1
    /\ Len(records) = 1

\* C22: the service of the record of a log call is the service of the
\* ambient context when the context has one, otherwise the service name the
\* instance was constructed with, otherwise the process-level default "app";
\* the record of a Logger of getLogger carries the context's service or a
\* default in its place (the call hands over no extra mapping with a service).
C22_ServicePrecedence ==
    (lastOp.op = "log" /\ lastOp.threw = "no" /\ lastOp.meta = NoMeta)
       => IF lastOp.inst # 0
          THEN lastOp.service =
                  OrElse(lastOp.ctxService, OrElse(insts[lastOp.inst].serviceName, "app"))
          ELSE /\ lastOp.storeService # ""
               /\ lastOp.ctxService # "" => lastOp.storeService = lastOp.ctxService

\* C23: every debug, info, warn and error call on an instance whose console
\* transport is registered produces a console line.
C23_ConsoleAcceptsAllLevels ==
    (/\ lastOp.op = "log"
     /\ lastOp.threw = "no"
     /\ lastOp.inst # 0
     /\ "Console" \in insts[lastOp.inst].transports)
       => lastOp.console

\* C24: failureResponse(res, error) sends one response, whose status is
\* error.statusCode (500 when absent) and whose body message is
\* error.message ("Internal Server Error" when absent), unchanged.  (An
\* empty message, which the response classes replace by their default, is
\* left out here.)
C24_FailureResponseEchoesError ==
    (lastOp.op = "failureResponse" /\ lastOp.error.message # "")
       => /\ lastOp.response.sent = 1
          /\ lastOp.response.status =
                (IF lastOp.error.statusCode = 0 THEN 500 ELSE lastOp.error.statusCode)
          /\ lastOp.response.message =
                <<"text", IF lastOp.error.message = Undefined THEN "Internal Server Error"
                          ELSE lastOp.error.message>>

\* C25: the promise of mongoConnect({retry: 0}) stays pending while a retry
\* is pending and does not settle with undefined; when an attempt succeeds
\* the connection it opened is delivered to the caller, so that getLogger
\* obtains its Logger.
C25_MongoConnectDeliversTheConnection ==
    variant = "getLogger"
       => /\ g.inFlight > 0 => g.promise = "pending"
          /\ g.undelivered = 0
          /\ g.succeeded > 0 => g.promise = "fulfilled"

\* C26: getLogger creates one promise in the life of the process; a call
\* made when the promise exists returns it and changes nothing, so it starts
\* no connection attempt; a promise that has rejected stays rejected.
C26_FirstPromiseIsCached ==
    /\ [](g.promises <= 1)
    /\ [][((lastOp'.op = "getLogger" /\ g.promise # Null)
              => (g' = g /\ lastOp'.promise = g.promise /\ ~lastOp'.created))
           /\ (g.promise = "rejected" => g'.promise = "rejected")]_vars

\* getLogger was called after the first initialization had rejected with all
\* its attempts failed, and returned the rejected promise
C26_Witness ==
    /\ lastOp.op = "getLogger"
    /\ ~lastOp.created
    /\ lastOp.promise = "rejected"
    /\ g.attempts = MAX_RETRY + 1
    /\ g.inFlight = 0

\* C27: in every state of a UniversalLogger the transport of the persistent
\* store is registered exactly when isInitialized is true, isInitializing
\* and isInitialized are not both true, and isInitialized never goes back
\* from true to false.
C27_TransportIffInitialized ==
    /\ [](\A i \in DOMAIN insts :
            /\ "MongoDB" \in insts[i].transports <=> insts[i].isInitialized
            /\ ~(insts[i].isInitializing /\ insts[i].isInitialized))
    /\ [][\A i \in DOMAIN insts : insts[i].isInitialized => insts'[i].isInitialized]_vars

\* C28: in the record of every log call of a UniversalLogger, requestId and
\* service are the values derived from the context and the instance, whatever
\* the extra mapping of the caller holds.
C28_ExtraReplacesNoDerivedField ==
    (lastOp.op = "log" /\ lastOp.inst # 0 /\ lastOp.threw = "no")
       => /\ lastOp.requestId = lastOp.derived.requestId
          /\ lastOp.service = lastOp.derived.service

====
